---- MODULE Spec2Model ----
(***************************************************************************)
(* Model of nearuplib/localnet.py: the localnet launcher (entry, run) and  *)
(* the per-node patch step (type-safe override merge, port overwrite).     *)
(*                                                                         *)
(* A JSON file is represented by the document json.loads returns for its  *)
(* text: a tree of typed values in which a mapping keeps its keys in       *)
(* insertion order, as a Python dict does.  Dumps renders such a tree as   *)
(* json.dumps(data, indent=2) does.                                        *)
(***************************************************************************)
EXTENDS Integers, Sequences, FiniteSets, TLC

(***************************************************************************)
(* Bounds of the model.                                                    *)
(***************************************************************************)
MaxValidators == 2
MaxInt == 1

\* The numbers of non-validator nodes tried.
NonValidatorChoices == {0, 1}

\* The largest num_nodes of a launch.
MaxNodes == MaxValidators + 1

(***************************************************************************)
(* Program constants.                                                      *)
(***************************************************************************)
_LOCALNET_RPC_PORT == 3030
_LOCALNET_NETWORK_PORT == 24567

(***************************************************************************)
(* JSON values as Python objects: t is the Python type name.               *)
(***************************************************************************)
Str(s) == [t |-> "str", s |-> s]
Number(n) == [t |-> "int", n |-> n]
Null == [t |-> "NoneType"]
List(items) == [t |-> "list", items |-> items]
Dict(pairs) == [t |-> "dict", pairs |-> pairs]
Pair(k, x) == [k |-> k, x |-> x]

\* Exceptions raised by the patch step.
TypeError == [t |-> "TypeError"]
KeyError == [t |-> "KeyError"]
AssertionError == [t |-> "AssertionError"]

IsError(v) == v.t \in {"TypeError", "KeyError", "AssertionError"}

\* isinstance(v, Mapping)
IsMapping(v) == v.t = "dict"

\* key in d
HasKey(d, key) == \E i \in 1..Len(d.pairs) : d.pairs[i].k = key

KeyIndex(d, key) == CHOOSE i \in 1..Len(d.pairs) : d.pairs[i].k = key

\* d[key]
Get(d, key) == d.pairs[KeyIndex(d, key)].x

\* d[key] = x: an existing key keeps its position, a new key goes last.
Put(d, key, x) ==
    IF HasKey(d, key)
    THEN Dict([d.pairs EXCEPT ![KeyIndex(d, key)] = Pair(key, x)])
    ELSE Dict(Append(d.pairs, Pair(key, x)))

(***************************************************************************)
(* mergedeep.merge(destination, source, strategy=TYPESAFE_REPLACE).        *)
(***************************************************************************)
\* The default strategy, REPLACE: the source value always wins.
HandleMergeReplace(dv, sv) == sv

\* The strategy TYPESAFE_ADDITIVE: sequences of both are concatenated.
HandleMergeTypesafeAdditive(dv, sv) ==
    IF dv.t # sv.t THEN TypeError
    ELSE IF dv.t = "list" THEN List(dv.items \o sv.items) ELSE sv

\* TYPESAFE_REPLACE on a key of both whose values are not both mappings:
\* TypeError when the Python types differ, the source value otherwise.
HandleMergeTypesafeReplace(dv, sv) ==
    IF dv.t # sv.t THEN TypeError ELSE sv

RECURSIVE MergeKeys(_, _, _)
\* The loop of the merge over the keys of src, from its i-th key on.  Two
\* mappings are merged recursively; any other pair of values goes to the
\* strategy (a pair that is one and the same object is left alone, which
\* gives the value the strategy would give); a key only src has is added.
MergeKeys(dst, src, i) ==
    IF i > Len(src.pairs) THEN dst
    ELSE LET key == src.pairs[i].k
             sv == src.pairs[i].x
         IN  IF HasKey(dst, key)
             THEN LET dv == Get(dst, key)
                      nv == IF IsMapping(dv) /\ IsMapping(sv)
                            THEN MergeKeys(dv, sv, 1)
                            ELSE HandleMergeTypesafeReplace(dv, sv)
                  IN  IF IsError(nv) THEN nv
                      ELSE MergeKeys(Put(dst, key, nv), src, i + 1)
             ELSE MergeKeys(Put(dst, key, sv), src, i + 1)

DeepMerge(dst, src) == MergeKeys(dst, src, 1)

\* Python's None, for an optional parameter that was not given.
PyNone == [t |-> "None"]

\* if override_path: merge(document, override, TYPESAFE_REPLACE)
ApplyOverride(doc, override) ==
    IF override.t = "None" THEN doc ELSE DeepMerge(doc, override)

(***************************************************************************)
(* The port assignment and the patch of config.json and genesis.json.      *)
(***************************************************************************)
\* f'0.0.0.0:{_LOCALNET_RPC_PORT + node_id}'
RpcAddr(node_id) == "0.0.0.0:" \o ToString(_LOCALNET_RPC_PORT + node_id)

\* f'0.0.0.0:{_LOCALNET_NETWORK_PORT + node_id}'
NetworkAddr(node_id) == "0.0.0.0:" \o ToString(_LOCALNET_NETWORK_PORT + node_id)

\* config[section]['addr'] = addr
SetAddr(config, section, addr) ==
    IF ~HasKey(config, section) THEN KeyError
    ELSE IF ~IsMapping(Get(config, section)) THEN TypeError
    ELSE Put(config, section, Put(Get(config, section), "addr", Str(addr)))

\* The ports are written before the override is merged.
PatchConfigPortsFirst(config, override, node_id) ==
    LET r == SetAddr(config, "rpc", RpcAddr(node_id))
        n == IF IsError(r) THEN r ELSE SetAddr(r, "network", NetworkAddr(node_id))
    IN  IF IsError(n) THEN n ELSE ApplyOverride(n, override)

\* The new content of config.json of node node_id, or the exception raised.
PatchConfig(config, override, node_id) ==
    LET merged == ApplyOverride(config, override)
        r == IF IsError(merged) THEN merged
             ELSE SetAddr(merged, "rpc", RpcAddr(node_id))
    IN  IF IsError(r) THEN r ELSE SetAddr(r, "network", NetworkAddr(node_id))

\* The new content of genesis.json, or the exception raised.
PatchGenesis(genesis, override) == ApplyOverride(genesis, override)

(***************************************************************************)
(* json.dumps(data, indent=2).                                             *)
(***************************************************************************)
RECURSIVE Spaces(_)
Spaces(n) == IF n = 0 THEN "" ELSE " " \o Spaces(n - 1)

RECURSIVE DumpsAt(_, _)
RECURSIVE DumpItems(_, _, _)
RECURSIVE DumpPairs(_, _, _)

DumpItems(items, i, level) ==
    IF i > Len(items) THEN ""
    ELSE (IF i = 1 THEN "\n" ELSE ",\n") \o Spaces(2 * level)
         \o DumpsAt(items[i], level) \o DumpItems(items, i + 1, level)

DumpPairs(pairs, i, level) ==
    IF i > Len(pairs) THEN ""
    ELSE (IF i = 1 THEN "\n" ELSE ",\n") \o Spaces(2 * level)
         \o "\"" \o pairs[i].k \o "\": " \o DumpsAt(pairs[i].x, level)
         \o DumpPairs(pairs, i + 1, level)

DumpsAt(v, level) ==
    CASE v.t = "str" -> "\"" \o v.s \o "\""
      [] v.t = "int" -> ToString(v.n)
      [] v.t = "NoneType" -> "null"
      [] v.t = "list" ->
            IF v.items = <<>> THEN "[]"
            ELSE "[" \o DumpItems(v.items, 1, level + 1) \o "\n"
                 \o Spaces(2 * level) \o "]"
      [] v.t = "dict" ->
            IF v.pairs = <<>> THEN "{}"
            ELSE "{" \o DumpPairs(v.pairs, 1, level + 1) \o "\n"
                 \o Spaces(2 * level) \o "}"

Dumps(data) == DumpsAt(data, 0)

(***************************************************************************)
(* The files of a node directory home/node{i}.                             *)
(***************************************************************************)
\* A file that does not exist.
Missing == [t |-> "missing"]

NodeIds == 0..(MaxNodes - 1)

NoDir == [config |-> Missing, genesis |-> Missing,
          log_config |-> Missing, node_key |-> Missing]

\* What the external binary generates for a node in its "localnet" mode.
GeneratedConfig ==
    Dict(<<Pair("rpc", Dict(<<Pair("addr", Str("0.0.0.0:3030"))>>)),
           Pair("network", Dict(<<Pair("addr", Str("0.0.0.0:24567"))>>))>>)

GeneratedGenesis == Dict(<<Pair("chain_id", Str("localnet"))>>)

GeneratedKey(epoch, i) ==
    Dict(<<Pair("public_key", Str("ed25519:" \o epoch \o ToString(i)))>>)

GeneratedNode(epoch, i) ==
    [config |-> GeneratedConfig, genesis |-> GeneratedGenesis,
     log_config |-> Missing, node_key |-> GeneratedKey(epoch, i)]

\* str(opentelemetry).lower() and str(log_level).upper() on the values tried.
Lower(v) == IF v = TRUE THEN "true" ELSE "false"
Upper(v) == CASE v = "debug" -> "DEBUG" [] v = "info" -> "INFO"

\* The content of log_config.json.
LogConfig(opentelemetry, log_level) ==
    Dict(<<Pair("opentelemetry",
                IF opentelemetry.t = "None" THEN Null ELSE Str(Lower(opentelemetry.v))),
           Pair("rust_log",
                IF log_level.t = "None" THEN Null ELSE Str(Upper(log_level.v)))>>)

\* f'{proc.pid}|{proc_name}|localnet\n'
PidLine(pid, proc_name) == ToString(pid) \o "|" \o proc_name \o "|localnet\n"

(***************************************************************************)
(* The state of the launcher and of the host it runs on.                   *)
(***************************************************************************)
VARIABLES
    pc,                 \* the launcher's position in entry and run
    binary_path,        \* the binary_path argument: "" or a directory
    cache_dir,          \* LOCALNET_FOLDER exists
    downloaded,         \* util.download_binaries was called
    neard_running,      \* what is_neard_running() answers
    home_exists,        \* home.exists()
    nodes,              \* node id -> the files of home/node{id}
    num_validators, num_non_validators,
    config_override,    \* the document at config_override_path, or PyNone
    genesis_override,   \* the document at genesis_override_path, or PyNone
    log_level, opentelemetry,
    node_id,            \* the loop variable of the patch and the spawn loop
    public_key,         \* node_key['public_key'], "" before it is read
    logs,               \* LOCALNET_LOGS_FOLDER: the names of its files
    pid_file,           \* NODE_PID_FILE on disk: its lines
    pid_fd,             \* the file object of the PID file: open or not, its buffer
    procs,              \* the node processes spawned, in spawn order
    init_proc,          \* the "localnet" invocation: "none", "running", "exited"
    answer,             \* the removal confirmation: "none", "remove", "keep"
    written,            \* the node files written by this run
    error,              \* the exception or exit that ended the run, or PyNone
    start               \* the host's files when entry was called

launcher_vars ==
    <<pc, binary_path, cache_dir, downloaded, neard_running, home_exists, nodes,
      num_validators, num_non_validators, config_override, genesis_override,
      log_level, opentelemetry, node_id, public_key, logs, pid_file, pid_fd,
      procs, init_proc, answer, written, error, start>>

\* num_nodes = num_validators + num_non_validators
num_nodes == num_validators + num_non_validators

(***************************************************************************)
(* The states entry can be called in.                                      *)
(***************************************************************************)
\* The pid of a node process of an earlier launch.
OldPid == 100

\* A node directory as an earlier launch without overrides left it.
PreviousNode(i) ==
    [config |-> PatchConfig(GeneratedConfig, PyNone, i),
     genesis |-> GeneratedGenesis,
     log_config |-> LogConfig(PyNone, PyNone),
     node_key |-> GeneratedKey("old", i)]

\* A home of n node directories; when damaged, the last one lacks genesis.json.
PreviousNodes(n, damaged) ==
    [i \in NodeIds |->
        IF i >= n THEN NoDir
        ELSE IF damaged /\ i = n - 1
             THEN [PreviousNode(i) EXCEPT !.genesis = Missing]
             ELSE PreviousNode(i)]

HomeStates ==
    {[exists |-> FALSE, nodes |-> [i \in NodeIds |-> NoDir]]}
    \cup {[exists |-> TRUE, nodes |-> PreviousNodes(n, FALSE)] : n \in 0..MaxNodes}
    \cup {[exists |-> TRUE, nodes |-> PreviousNodes(n, TRUE)] : n \in 1..MaxNodes}

\* The logs folder and the PID file: absent, or left by an earlier launch.
LaunchLeftovers ==
    {[logs |-> [exists |-> FALSE, files |-> {}], pid_file |-> <<>>],
     [logs |-> [exists |-> TRUE, files |-> {"node0"}],
      pid_file |-> <<PidLine(OldPid, "neard")>>]}

ConfigOverrides ==
    {PyNone,
     Dict(<<Pair("rpc", Dict(<<Pair("addr", Str("ignored"))>>)),
            Pair("network", Dict(<<Pair("addr", Str("ignored"))>>))>>),
     Dict(<<Pair("archive", Null)>>),
     Dict(<<Pair("rpc", Number(1))>>)}

GenesisOverrides ==
    {PyNone,
     Dict(<<Pair("chain_id", Str("mynet"))>>),
     Dict(<<Pair("chain_id", Number(7))>>)}

\* The log_level and opentelemetry arguments: both absent, or both given.
LogSettings ==
    {[log_level |-> PyNone, opentelemetry |-> PyNone],
     [log_level |-> [t |-> "str", v |-> "debug"],
      opentelemetry |-> [t |-> "bool", v |-> TRUE]]}

LauncherInit ==
    /\ pc = "entry"
    /\ binary_path \in {"", "/opt/near"}
    /\ cache_dir \in BOOLEAN
    /\ (binary_path # "" => cache_dir = FALSE)
    /\ downloaded = FALSE
    /\ neard_running \in BOOLEAN
    /\ \E h \in HomeStates : home_exists = h.exists /\ nodes = h.nodes
    /\ num_validators \in 0..MaxValidators
    /\ num_non_validators \in NonValidatorChoices
    /\ config_override \in ConfigOverrides
    /\ genesis_override \in GenesisOverrides
    /\ \E l \in LogSettings :
          log_level = l.log_level /\ opentelemetry = l.opentelemetry
    /\ node_id = 0
    /\ public_key = ""
    /\ \E l \in LaunchLeftovers : logs = l.logs /\ pid_file = l.pid_file
    /\ pid_fd = [open |-> FALSE, buffer |-> <<>>]
    /\ procs = <<>>
    /\ init_proc = "none"
    /\ answer = "none"
    /\ written = {}
    /\ error = PyNone
    /\ start = [cache_dir |-> cache_dir, home_exists |-> home_exists,
                nodes |-> nodes, logs |-> logs, pid_file |-> pid_file]

(***************************************************************************)
(* entry.                                                                  *)
(***************************************************************************)
\* The arguments of entry, the host's answer to is_neard_running and the
\* record of the files at the start: no step changes them.
inputs ==
    <<binary_path, neard_running, num_validators, num_non_validators,
      config_override, genesis_override, log_level, opentelemetry, start>>

\* An exception leaves run: the launcher ends with a non-zero status.
Raise(exception) ==
    /\ pc' = "failed"
    /\ error' = [t |-> exception.t, at |-> pc, node |-> node_id, code |-> 1]

\* if binary_path: ... else: makedirs(LOCALNET_FOLDER); download_binaries(...)
ResolveBinary ==
    /\ pc = "entry"
    /\ pc' = "guard"
    /\ IF binary_path # ""
       THEN UNCHANGED <<cache_dir, downloaded>>
       ELSE cache_dir' = TRUE /\ downloaded' = TRUE
    /\ UNCHANGED <<inputs, home_exists, nodes, node_id, public_key, logs, pid_file,
                   pid_fd, procs, init_proc, answer, written, error>>

\* The guard does not stop the launch.
GuardIgnored ==
    /\ pc = "guard"
    /\ pc' = "confirm"
    /\ UNCHANGED <<inputs, cache_dir, downloaded, home_exists, nodes, node_id,
                   public_key, logs, pid_file, pid_fd, procs, init_proc, answer,
                   written, error>>

\* if is_neard_running(): sys.exit(1)
Guard ==
    /\ pc = "guard"
    /\ IF neard_running
       THEN /\ pc' = "exited"
            /\ error' = [t |-> "SystemExit", at |-> pc, node |-> node_id, code |-> 1]
       ELSE pc' = "confirm" /\ UNCHANGED error
    /\ UNCHANGED <<inputs, cache_dir, downloaded, home_exists, nodes, node_id,
                   public_key, logs, pid_file, pid_fd, procs, init_proc, answer,
                   written>>

(***************************************************************************)
(* run: the removal of old data and the initialization of home.            *)
(***************************************************************************)
\* The old data is removed whatever the confirmation answers.
ConfirmRemoveAlways ==
    /\ pc = "confirm"
    /\ pc' = "init"
    /\ IF home_exists
       THEN \E remove \in BOOLEAN :
                /\ answer' = IF remove THEN "remove" ELSE "keep"
                /\ home_exists' = FALSE
                /\ nodes' = [i \in NodeIds |-> NoDir]
       ELSE UNCHANGED <<answer, home_exists, nodes>>
    /\ UNCHANGED <<inputs, cache_dir, downloaded, node_id, public_key, logs,
                   pid_file, pid_fd, procs, init_proc, written, error>>

\* if home.exists(): if prompt_bool_flag(...): shutil.rmtree(home)
ConfirmRemove ==
    /\ pc = "confirm"
    /\ pc' = "init"
    /\ IF home_exists
       THEN \E remove \in BOOLEAN :
                /\ answer' = IF remove THEN "remove" ELSE "keep"
                /\ IF remove
                   THEN home_exists' = FALSE /\ nodes' = [i \in NodeIds |-> NoDir]
                   ELSE UNCHANGED <<home_exists, nodes>>
       ELSE UNCHANGED <<answer, home_exists, nodes>>
    /\ UNCHANGED <<inputs, cache_dir, downloaded, node_id, public_key, logs,
                   pid_file, pid_fd, procs, init_proc, written, error>>

\* The position after the initialization and at the head of the patch loop.
PatchLoopHead(next_id) == IF next_id < num_nodes THEN "patch_config" ELSE "read_key"

\* if not home.exists(): the prompts, then run_binary(..., 'localnet', ...)
InitializeStart ==
    /\ pc = "init"
    /\ IF home_exists
       THEN pc' = PatchLoopHead(0) /\ UNCHANGED init_proc
       ELSE pc' = "init_wait" /\ init_proc' = "running"
    /\ UNCHANGED <<inputs, cache_dir, downloaded, home_exists, nodes, node_id,
                   public_key, logs, pid_file, pid_fd, procs, answer, written, error>>

\* The launcher goes on while the "localnet" invocation is still running.
InitializeNoWait ==
    /\ pc = "init_wait"
    /\ pc' = PatchLoopHead(0)
    /\ UNCHANGED <<inputs, cache_dir, downloaded, home_exists, nodes, node_id,
                   public_key, logs, pid_file, pid_fd, procs, init_proc, answer,
                   written, error>>

\* .wait(): the invocation has populated home/node{0..num_nodes-1} and exited,
\* or it has failed and exited; its exit status is not looked at.
InitializeWait ==
    /\ pc = "init_wait"
    /\ pc' = PatchLoopHead(0)
    /\ init_proc' = "exited"
    /\ \E succeeded \in BOOLEAN :
          IF succeeded
          THEN /\ home_exists' = TRUE
               /\ nodes' = [i \in NodeIds |->
                               IF i < num_nodes THEN GeneratedNode("new", i) ELSE NoDir]
          ELSE UNCHANGED <<home_exists, nodes>>
    /\ UNCHANGED <<inputs, cache_dir, downloaded, node_id, public_key, logs,
                   pid_file, pid_fd, procs, answer, written, error>>

(***************************************************************************)
(* run: the patch loop, for node_id in range(0, num_nodes).                *)
(***************************************************************************)
\* read_json_for_node(file_name, node_id): the document, or the failed assert.
ReadJsonForNode(file, i) ==
    IF nodes[i][file].t = "missing" THEN AssertionError ELSE nodes[i][file]

\* write_json_for_node(file_name, node_id, data)
WriteJsonForNode(file, i, data) ==
    /\ nodes' = [nodes EXCEPT ![i][file] = data]
    /\ written' = written \cup {<<i, file>>}

\* An exception of the patch of config.json is swallowed: the loop goes on.
PatchConfigStepLenient ==
    /\ pc = "patch_config"
    /\ LET config == ReadJsonForNode("config", node_id)
           patched == IF IsError(config) THEN config
                      ELSE PatchConfig(config, config_override, node_id)
       IN  /\ IF IsError(patched)
              THEN UNCHANGED <<nodes, written>>
              ELSE WriteJsonForNode("config", node_id, patched)
           /\ pc' = "patch_genesis"
           /\ UNCHANGED error
    /\ UNCHANGED <<inputs, cache_dir, downloaded, home_exists, node_id, public_key,
                   logs, pid_file, pid_fd, procs, init_proc, answer>>

\* config.json: read, merge the override, overwrite the ports, write back.
PatchConfigStep ==
    /\ pc = "patch_config"
    /\ LET config == ReadJsonForNode("config", node_id)
           patched == IF IsError(config) THEN config
                      ELSE PatchConfig(config, config_override, node_id)
       IN  IF IsError(patched)
           THEN Raise(patched) /\ UNCHANGED <<nodes, written>>
           ELSE /\ WriteJsonForNode("config", node_id, patched)
                /\ pc' = "patch_genesis"
                /\ UNCHANGED error
    /\ UNCHANGED <<inputs, cache_dir, downloaded, home_exists, node_id, public_key,
                   logs, pid_file, pid_fd, procs, init_proc, answer>>

\* genesis.json: read, merge the override, write back.
PatchGenesisStep ==
    /\ pc = "patch_genesis"
    /\ LET genesis == ReadJsonForNode("genesis", node_id)
           patched == IF IsError(genesis) THEN genesis
                      ELSE PatchGenesis(genesis, genesis_override)
       IN  IF IsError(patched)
           THEN Raise(patched) /\ UNCHANGED <<nodes, written>>
           ELSE /\ WriteJsonForNode("genesis", node_id, patched)
                /\ pc' = "write_log_config"
                /\ UNCHANGED error
    /\ UNCHANGED <<inputs, cache_dir, downloaded, home_exists, node_id, public_key,
                   logs, pid_file, pid_fd, procs, init_proc, answer>>

\* log_config.json is written; the loop goes to the next node.
WriteLogConfigStep ==
    /\ pc = "write_log_config"
    /\ WriteJsonForNode("log_config", node_id, LogConfig(opentelemetry, log_level))
    /\ node_id' = node_id + 1
    /\ pc' = PatchLoopHead(node_id + 1)
    /\ UNCHANGED <<inputs, cache_dir, downloaded, home_exists, public_key, logs,
                   pid_file, pid_fd, procs, init_proc, answer, error>>

(***************************************************************************)
(* run: the launch.                                                        *)
(***************************************************************************)
\* boot_nodes=f'{public_key}@127.0.0.1:24567' if i > 0 else None
BootNodesForAll(i, key) == Str(key \o "@127.0.0.1:24567")

BootNodes(i, key) ==
    IF i > 0 THEN Str(key \o "@127.0.0.1:24567") ELSE PyNone

\* The position at the head of the spawn loop.
SpawnLoopHead(next_id) == IF next_id < num_nodes THEN "spawn" ELSE "close_pid_file"

\* node_key = read_json_for_node('node_key.json', 0); node_key['public_key']
ReadNodeKey ==
    /\ pc = "read_key"
    /\ LET node_key == ReadJsonForNode("node_key", 0)
       IN  IF IsError(node_key) THEN Raise(node_key) /\ UNCHANGED public_key
           ELSE IF ~HasKey(node_key, "public_key")
                THEN Raise(KeyError) /\ UNCHANGED public_key
                ELSE /\ public_key' = Get(node_key, "public_key").s
                     /\ pc' = "recreate_logs"
                     /\ UNCHANGED error
    /\ UNCHANGED <<inputs, cache_dir, downloaded, home_exists, nodes, node_id, logs,
                   pid_file, pid_fd, procs, init_proc, answer, written>>

\* shutil.rmtree(LOCALNET_LOGS_FOLDER, ignore_errors=True); os.mkdir(...)
RecreateLogs ==
    /\ pc = "recreate_logs"
    /\ logs' = [exists |-> TRUE, files |-> {}]
    /\ pc' = "open_pid_file"
    /\ UNCHANGED <<inputs, cache_dir, downloaded, home_exists, nodes, node_id,
                   public_key, pid_file, pid_fd, procs, init_proc, answer, written,
                   error>>

\* The PID file is opened for appending.
OpenPidFileAppend ==
    /\ pc = "open_pid_file"
    /\ pid_fd' = [open |-> TRUE, buffer |-> <<>>]
    /\ node_id' = 0
    /\ pc' = SpawnLoopHead(0)
    /\ UNCHANGED <<inputs, cache_dir, downloaded, home_exists, nodes, public_key,
                   logs, pid_file, procs, init_proc, answer, written, error>>

\* with open(NODE_PID_FILE, 'w') as pid_fd: the file is truncated.
OpenPidFile ==
    /\ pc = "open_pid_file"
    /\ pid_file' = <<>>
    /\ pid_fd' = [open |-> TRUE, buffer |-> <<>>]
    /\ node_id' = 0
    /\ pc' = SpawnLoopHead(0)
    /\ UNCHANGED <<inputs, cache_dir, downloaded, home_exists, nodes, public_key,
                   logs, procs, init_proc, answer, written, error>>

\* Leaving the with block, normally or by an exception, flushes and closes.
ClosePidFd ==
    /\ pid_file' = pid_file \o pid_fd.buffer
    /\ pid_fd' = [open |-> FALSE, buffer |-> <<>>]

\* The pids the host can give the next process: they increase, with gaps.
FreshPids ==
    LET last == IF procs = <<>> THEN OldPid ELSE procs[Len(procs)].pid
    IN  {last + 1, last + 2}

\* proc = run_binary(binary_path, home/node{i}, 'run', boot_nodes=..., output=...)
\* returns the handle of a running process at once, or raises.
SpawnNode ==
    /\ pc = "spawn"
    /\ \/ \E pid \in FreshPids :
             /\ procs' = Append(procs,
                    [node |-> node_id, pid |-> pid,
                     boot_nodes |-> BootNodes(node_id, public_key),
                     status |-> "running"])
             /\ logs' = [logs EXCEPT !.files = @ \cup {"node" \o ToString(node_id)}]
             /\ pc' = "record_pid"
             /\ UNCHANGED <<pid_file, pid_fd, error>>
       \/ /\ Raise([t |-> "OSError"])
          /\ ClosePidFd
          /\ UNCHANGED <<procs, logs>>
    /\ UNCHANGED <<inputs, cache_dir, downloaded, home_exists, nodes, node_id,
                   public_key, init_proc, answer, written>>

\* proc_name = proc_name_from_pid(proc.pid); pid_fd.write(f'...\n')
RecordPid ==
    /\ pc = "record_pid"
    /\ \/ /\ pid_fd' = [pid_fd EXCEPT !.buffer =
                            Append(@, PidLine(procs[Len(procs)].pid, "neard"))]
          /\ node_id' = node_id + 1
          /\ pc' = SpawnLoopHead(node_id + 1)
          /\ UNCHANGED <<pid_file, error>>
       \/ /\ Raise([t |-> "psutil.Error"])
          /\ ClosePidFd
          /\ UNCHANGED node_id
    /\ UNCHANGED <<inputs, cache_dir, downloaded, home_exists, nodes, public_key,
                   logs, procs, init_proc, answer, written>>

\* The end of the with block and of run.
ClosePidFile ==
    /\ pc = "close_pid_file"
    /\ ClosePidFd
    /\ pc' = "done"
    /\ UNCHANGED <<inputs, cache_dir, downloaded, home_exists, nodes, node_id,
                   public_key, logs, procs, init_proc, answer, written, error>>

(***************************************************************************)
(* The patch step on its own: the documents it is applied to.              *)
(***************************************************************************)
VARIABLES
    p_stage,        \* "idle", "loaded", "merged", "once", "twice"
    p_file,         \* "config" or "genesis"
    p_node,         \* the node id of the patch
    p_base,         \* the document read from the node's file
    p_override,     \* the override document, or PyNone
    p_merged,       \* the result of the override merge alone
    p_once,         \* the file content after one patch
    p_twice         \* the file content after a second patch

patch_vars ==
    <<p_stage, p_file, p_node, p_base, p_override, p_merged, p_once, p_twice>>

Scalars ==
    {Str("x"), Str("ignored"), Null} \cup {Number(n) : n \in 1..MaxInt}

Lists ==
    {List(<<>>), List(<<Number(1)>>),
     List(<<Dict(<<Pair("b", Number(1))>>), Str("x")>>)}

\* The values of the key "a": scalars, sequences and mappings.
ValuesOfA ==
    Scalars \cup Lists \cup {Dict(<<>>)}
    \cup {Dict(<<Pair("b", v)>>) : v \in Scalars \cup {List(<<Number(1)>>)}}

\* The values of the key "rpc".
ValuesOfRpc ==
    {Dict(<<>>), Number(1)}
    \cup {Dict(<<Pair("addr", v)>>) :
            v \in {Str("0.0.0.0:3030"), Str("ignored")} \cup {Number(n) : n \in 1..MaxInt}}

ValuesOfNetwork == {Dict(<<Pair("addr", Str("0.0.0.0:24567"))>>)}

\* No pair, or one pair of the key with one of the values.
Optional(key, values) == {<<>>} \cup {<<Pair(key, v)>> : v \in values}

\* The documents tried as the content of a file and as an override.
Documents ==
    LET r == Optional("rpc", ValuesOfRpc)
        n == Optional("network", ValuesOfNetwork)
        a == Optional("a", ValuesOfA)
    IN  {Dict(x \o y \o z) : x \in r, y \in n, z \in a}
        \cup {Dict(z \o x \o y) : x \in r, y \in n, z \in a}

\* The patch of one file of node node_id.
Patch(file, doc, override, i) ==
    IF file = "config" THEN PatchConfig(doc, override, i)
    ELSE PatchGenesis(doc, override)

Nothing == [t |-> "nothing"]

PatchInit ==
    /\ p_stage = "loaded"
    /\ \/ p_file = "config" /\ p_node \in 0..1
       \/ p_file = "genesis" /\ p_node = 0
    /\ p_base \in Documents
    /\ p_override \in Documents \cup {PyNone}
    /\ p_merged = Nothing
    /\ p_once = Nothing
    /\ p_twice = Nothing

\* The override merge of the patch, alone.
MergeOverride ==
    /\ p_stage = "loaded"
    /\ p_merged' = ApplyOverride(p_base, p_override)
    /\ p_stage' = "merged"
    /\ UNCHANGED <<p_file, p_node, p_base, p_override, p_once, p_twice>>

\* The patch step applied to the file as it was read.
PatchFirst ==
    /\ p_stage = "merged"
    /\ p_once' = Patch(p_file, p_base, p_override, p_node)
    /\ p_stage' = "once"
    /\ UNCHANGED <<p_file, p_node, p_base, p_override, p_merged, p_twice>>

\* The patch step applied again, to the file the first patch wrote.
PatchSecond ==
    /\ p_stage = "once"
    /\ ~IsError(p_once)
    /\ p_twice' = Patch(p_file, p_once, p_override, p_node)
    /\ p_stage' = "twice"
    /\ UNCHANGED <<p_file, p_node, p_base, p_override, p_merged, p_once>>

\* The patch variables while the launcher runs.
PatchIdle ==
    /\ p_stage = "idle"
    /\ p_file = "config"
    /\ p_node = 0
    /\ p_base = Nothing
    /\ p_override = Nothing
    /\ p_merged = Nothing
    /\ p_once = Nothing
    /\ p_twice = Nothing

\* The launcher variables while the patch step is examined on its own.
LauncherIdle ==
    /\ pc = "idle"
    /\ binary_path = ""
    /\ cache_dir = FALSE
    /\ downloaded = FALSE
    /\ neard_running = FALSE
    /\ home_exists = FALSE
    /\ nodes = [i \in NodeIds |-> NoDir]
    /\ num_validators = 0
    /\ num_non_validators = 0
    /\ config_override = PyNone
    /\ genesis_override = PyNone
    /\ log_level = PyNone
    /\ opentelemetry = PyNone
    /\ node_id = 0
    /\ public_key = ""
    /\ logs = [exists |-> FALSE, files |-> {}]
    /\ pid_file = <<>>
    /\ pid_fd = [open |-> FALSE, buffer |-> <<>>]
    /\ procs = <<>>
    /\ init_proc = "none"
    /\ answer = "none"
    /\ written = {}
    /\ error = PyNone
    /\ start = Nothing

vars == <<launcher_vars, patch_vars>>

(***************************************************************************)
(* Spec: one call of entry.  SpecPatch: the patch step on bounded          *)
(* documents, applied once and twice.                                      *)
(***************************************************************************)
Init == LauncherInit /\ PatchIdle

Next ==
    \/ ResolveBinary /\ UNCHANGED patch_vars
    \/ Guard /\ UNCHANGED patch_vars
    \/ ConfirmRemove /\ UNCHANGED patch_vars
    \/ InitializeStart /\ UNCHANGED patch_vars
    \/ InitializeWait /\ UNCHANGED patch_vars
    \/ PatchConfigStep /\ UNCHANGED patch_vars
    \/ PatchGenesisStep /\ UNCHANGED patch_vars
    \/ WriteLogConfigStep /\ UNCHANGED patch_vars
    \/ ReadNodeKey /\ UNCHANGED patch_vars
    \/ RecreateLogs /\ UNCHANGED patch_vars
    \/ OpenPidFile /\ UNCHANGED patch_vars
    \/ SpawnNode /\ UNCHANGED patch_vars
    \/ RecordPid /\ UNCHANGED patch_vars
    \/ ClosePidFile /\ UNCHANGED patch_vars

Spec == Init /\ [][Next]_vars

InitPatch == PatchInit /\ LauncherIdle

NextPatch ==
    \/ MergeOverride /\ UNCHANGED launcher_vars
    \/ PatchFirst /\ UNCHANGED launcher_vars
    \/ PatchSecond /\ UNCHANGED launcher_vars

SpecPatch == InitPatch /\ [][NextPatch]_vars

(***************************************************************************)
(* Reading documents by key path, for the properties below.                *)
(***************************************************************************)
Absent == [t |-> "absent"]

Lookup1(doc, key) ==
    IF doc.t = "dict" /\ HasKey(doc, key) THEN Get(doc, key) ELSE Absent

\* The value at a key path of one or two keys, Absent when there is none.
Lookup(doc, path) ==
    IF Len(path) = 1 THEN Lookup1(doc, path[1])
    ELSE Lookup1(Lookup1(doc, path[1]), path[2])

Keys == {"rpc", "network", "a", "addr", "b"}

Paths == {<<k>> : k \in Keys} \cup {<<k1, k2>> : k1 \in Keys, k2 \in Keys}

KeysOf(doc) == [i \in 1..Len(doc.pairs) |-> doc.pairs[i].k]

Present(v) == v.t # "absent"

IsContainer(v) == v.t \in {"dict", "list"}

NodeFiles == {"config", "genesis", "log_config"}

LaunchPositions == {"open_pid_file", "spawn", "record_pid", "close_pid_file", "done"}

\* The launch has begun to act on the logs folder, the PID file or a process.
LaunchBegun ==
    \/ pc \in LaunchPositions
    \/ logs # start.logs
    \/ pid_fd.open
    \/ procs # <<>>

\* Every file of every node 0..num_nodes-1 has been written by this run.
AllNodesPatched ==
    \A i \in NodeIds : i < num_nodes => \A f \in NodeFiles : <<i, f>> \in written

(***************************************************************************)
(* C1: once the patch of node i has written config.json, its rpc.addr is   *)
(* "0.0.0.0:<3030+i>" and its network.addr is "0.0.0.0:<24567+i>" whatever *)
(* the config override says, and no two patched nodes share an rpc address *)
(* or a network address.                                                   *)
(***************************************************************************)
C1_PortsWin ==
    \A i \in NodeIds :
        <<i, "config">> \in written =>
            /\ Lookup(nodes[i].config, <<"rpc", "addr">>)
                   = Str("0.0.0.0:" \o ToString(3030 + i))
            /\ Lookup(nodes[i].config, <<"network", "addr">>)
                   = Str("0.0.0.0:" \o ToString(24567 + i))
            /\ \A j \in NodeIds :
                   (j # i /\ <<j, "config">> \in written) =>
                       /\ Lookup(nodes[i].config, <<"rpc", "addr">>)
                              # Lookup(nodes[j].config, <<"rpc", "addr">>)
                       /\ Lookup(nodes[i].config, <<"network", "addr">>)
                              # Lookup(nodes[j].config, <<"network", "addr">>)

\* Two nodes are patched under an override that sets both addresses.
C1_Witness ==
    /\ <<0, "config">> \in written
    /\ <<1, "config">> \in written
    /\ Lookup(config_override, <<"rpc", "addr">>) = Str("ignored")
    /\ Lookup(config_override, <<"network", "addr">>) = Str("ignored")

(***************************************************************************)
(* C2 as claimed: when entry exits at the guard, nothing on the host has   *)
(* changed: no directory created, no binary downloaded, home, the node     *)
(* files, the logs folder and the PID file as they were, nothing spawned.  *)
(***************************************************************************)
C2_NoSideEffects ==
    pc = "exited" =>
        /\ cache_dir = start.cache_dir
        /\ ~downloaded
        /\ home_exists = start.home_exists
        /\ nodes = start.nodes
        /\ logs = start.logs
        /\ pid_file = start.pid_file
        /\ init_proc = "none"
        /\ written = {}
        /\ procs = <<>>

(***************************************************************************)
(* C2 amended: when a node process is already running, entry exits at the  *)
(* guard with a non-zero status and run is never entered: home, the node   *)
(* files, the logs folder and the PID file are as they were, nothing is    *)
(* initialized or spawned.  The binary path is resolved before the guard:  *)
(* without a given binary path the cache directory exists and the download *)
(* has been made; with one, neither has been touched.                      *)
(***************************************************************************)
C2_GuardStopsLaunch ==
    /\ neard_running => pc \in {"entry", "guard", "exited"}
    /\ pc = "exited" =>
          /\ neard_running
          /\ error.t = "SystemExit" /\ error.code # 0
          /\ home_exists = start.home_exists
          /\ nodes = start.nodes
          /\ logs = start.logs
          /\ pid_file = start.pid_file
          /\ init_proc = "none"
          /\ written = {}
          /\ procs = <<>>
          /\ binary_path # "" => (cache_dir = start.cache_dir /\ ~downloaded)
          /\ binary_path = "" => (cache_dir /\ downloaded)

\* The guard has stopped a launch over an existing home, after a download
\* into a cache directory that did not exist.
C2_Witness ==
    /\ pc = "exited"
    /\ start.home_exists
    /\ binary_path = ""
    /\ ~start.cache_dir

(***************************************************************************)
(* C3 as claimed: when home exists and the removal is declined, home is    *)
(* not removed, the binary is not run in initialize mode and the files     *)
(* under home stay as they were, up to the end of run.                     *)
(***************************************************************************)
C3_FilesUntouched ==
    answer = "keep" =>
        /\ home_exists
        /\ init_proc = "none"
        /\ nodes = start.nodes

(***************************************************************************)
(* C3 amended: when home exists and the removal is declined, home is not   *)
(* removed and the binary is not run in initialize mode, so the files are  *)
(* as they were when the patch loop starts; the patch loop then rewrites   *)
(* config.json, genesis.json and log_config.json of the nodes              *)
(* 0..num_nodes-1 from their pre-existing content and nothing else under   *)
(* home changes; the launch uses the pre-existing node_key.json of node 0  *)
(* and, when no step fails, spawns num_nodes processes.                    *)
(***************************************************************************)
C3_DeclinedKeepsHome ==
    answer = "keep" =>
        /\ start.home_exists /\ home_exists
        /\ init_proc = "none"
        /\ \A i \in NodeIds :
              /\ nodes[i].node_key = start.nodes[i].node_key
              /\ \A f \in NodeFiles :
                    IF <<i, f>> \in written
                    THEN i < num_nodes
                         /\ (start.nodes[i][f].t # "missing" \/ f = "log_config")
                    ELSE nodes[i][f] = start.nodes[i][f]
              /\ <<i, "config">> \in written =>
                    nodes[i].config
                        = PatchConfig(start.nodes[i].config, config_override, i)
              /\ <<i, "genesis">> \in written =>
                    nodes[i].genesis
                        = PatchGenesis(start.nodes[i].genesis, genesis_override)
        /\ public_key # "" =>
              public_key = Lookup(start.nodes[0].node_key, <<"public_key">>).s
        /\ pc = "done" => Len(procs) = num_nodes

\* A launch of two nodes has completed over a kept home whose files the
\* patch loop has rewritten.
C3_Witness ==
    /\ answer = "keep"
    /\ pc = "done"
    /\ Len(procs) >= 2
    /\ nodes # start.nodes

(***************************************************************************)
(* C4: when the launch has completed, the PID file holds exactly num_nodes *)
(* lines, the k-th being "pid|name|localnet" of the process spawned for    *)
(* node k, in ascending node-id order, and nothing an earlier launch wrote.*)
(***************************************************************************)
C4_PidFileRewritten ==
    pc = "done" =>
        /\ Len(pid_file) = num_nodes
        /\ Len(procs) = num_nodes
        /\ \A k \in 1..num_nodes :
              /\ procs[k].node = k - 1
              /\ pid_file[k] = ToString(procs[k].pid) \o "|neard|localnet\n"

\* A launch of two or more nodes has completed over the PID file of an
\* earlier launch.
C4_Witness ==
    /\ pc = "done"
    /\ num_nodes >= 2
    /\ start.pid_file # <<>>

(***************************************************************************)
(* C5: node 0 is spawned with no boot-node address; every node i > 0 is    *)
(* spawned with "{public_key}@127.0.0.1:24567", public_key being the value *)
(* in node 0's node_key.json and 24567 the network port that the patch     *)
(* step has written into node 0's config.json.                             *)
(***************************************************************************)
C5_BootNodes ==
    \A k \in 1..Len(procs) :
        IF procs[k].node = 0
        THEN procs[k].boot_nodes = PyNone
        ELSE /\ procs[k].boot_nodes
                    = Str(Lookup(nodes[0].node_key, <<"public_key">>).s
                          \o "@127.0.0.1:" \o ToString(_LOCALNET_NETWORK_PORT))
             /\ Lookup(nodes[0].config, <<"network", "addr">>)
                    = Str("0.0.0.0:" \o ToString(_LOCALNET_NETWORK_PORT))

\* Node 0 and a later node have been spawned.
C5_Witness ==
    /\ Len(procs) >= 2
    /\ procs[1].node = 0
    /\ procs[2].node > 0

(***************************************************************************)
(* C8: the phases of run come in the order Initialize, PatchNode for every *)
(* node, Launch.  The initialize invocation, when there is one, has exited *)
(* before any node file is read; every node's config.json, genesis.json    *)
(* and log_config.json is written before the logs folder is recreated, the *)
(* PID file is opened or a process is spawned; the processes are spawned   *)
(* one by one in ascending node-id order, and the launcher waits for none  *)
(* of them: each is still running when the next is spawned.                *)
(***************************************************************************)
C8_PhaseOrder ==
    /\ init_proc = "running" => (pc = "init_wait" /\ written = {})
    /\ pc \in {"patch_config", "patch_genesis", "write_log_config", "read_key",
               "recreate_logs"} \cup LaunchPositions
          => /\ init_proc # "running"
             /\ (init_proc = "none" => start.home_exists /\ answer = "keep")
    /\ LaunchBegun => AllNodesPatched /\ public_key # ""
    /\ \A k \in 1..Len(procs) :
          procs[k].node = k - 1 /\ procs[k].status = "running"
    /\ pc = "record_pid" => Len(procs) = node_id + 1
    /\ pc = "spawn" => Len(procs) = node_id

\* A launch of two or more nodes has completed after an initialization.
C8_Witness ==
    /\ pc = "done"
    /\ init_proc = "exited"
    /\ Len(procs) >= 2

(***************************************************************************)
(* C9: when the patch step fails for node k, the launch is aborted: no     *)
(* file of a node above k is written, the logs folder and the PID file are *)
(* as they were and no process is spawned, while the files rewritten for   *)
(* the nodes below k stay rewritten.  A launch never begins unless the     *)
(* patch step succeeded for every node.                                    *)
(***************************************************************************)
C9_PatchFailureAborts ==
    /\ (LaunchBegun \/ pc \in {"read_key", "recreate_logs"}) => AllNodesPatched
    /\ (pc = "failed" /\ error.at \in {"patch_config", "patch_genesis"}) =>
          /\ error.code # 0
          /\ error.node = node_id
          /\ \A i \in NodeIds : \A f \in NodeFiles :
                /\ i > error.node => <<i, f>> \notin written
                /\ i < error.node =>
                      /\ <<i, f>> \in written
                      /\ nodes[i].log_config = LogConfig(opentelemetry, log_level)
                      /\ Lookup(nodes[i].config, <<"rpc", "addr">>)
                             = Str("0.0.0.0:" \o ToString(3030 + i))
          /\ <<error.node, "genesis">> \notin written
          /\ <<error.node, "log_config">> \notin written
          /\ logs = start.logs
          /\ pid_file = start.pid_file
          /\ ~pid_fd.open
          /\ procs = <<>>

\* The patch of a node above 0 has failed at a missing genesis.json, over
\* the logs folder and the PID file of an earlier launch.
C9_Witness ==
    /\ pc = "failed"
    /\ error.at = "patch_genesis"
    /\ error.t = "AssertionError"
    /\ error.node >= 1
    /\ start.pid_file # <<>>

\* The patch of a node has failed at a type conflict of the override merge.
C9_WitnessTypeConflict ==
    /\ pc = "failed"
    /\ error.at = "patch_config"
    /\ error.t = "TypeError"

(***************************************************************************)
(* C10 as claimed: at the head of each iteration of the spawn loop, at its *)
(* end and after a failure of an iteration (at the spawn or at the name    *)
(* resolution), the PID file (the lines written to it, flushed or not)     *)
(* holds one line for each process spawned so far, in node-id order.       *)
(***************************************************************************)
C10_EverySpawnRecorded ==
    (\/ pc \in {"spawn", "close_pid_file", "done"}
     \/ pc = "failed" /\ error.at \in {"spawn", "record_pid"}) =>
        LET lines == pid_file \o pid_fd.buffer
        IN  /\ Len(lines) = Len(procs)
            /\ \A k \in 1..Len(procs) :
                  lines[k] = ToString(procs[k].pid) \o "|neard|localnet\n"

(***************************************************************************)
(* The override merge, key path by key path.                               *)
(***************************************************************************)
\* One value is a container (mapping or sequence), the other a scalar.
KindConflict(b, o) ==
    Present(b) /\ Present(o) /\ IsContainer(b) # IsContainer(o)

\* The two values are of different Python types.
TypeConflict(b, o) == Present(b) /\ Present(o) /\ b.t # o.t

\* The merge has been applied to an override document.
Merged == p_stage = "merged" /\ p_override.t = "dict"

(***************************************************************************)
(* C6 as claimed: the merge fails exactly when, at some key path present   *)
(* in both documents, one value is a container and the other a scalar;     *)
(* two scalars never fail (the override value wins) and two containers     *)
(* never fail (they are merged).                                           *)
(***************************************************************************)
C6_FailsOnlyOnKindConflict ==
    Merged =>
        (IsError(p_merged)
            <=> \E path \in Paths :
                    KindConflict(Lookup(p_base, path), Lookup(p_override, path)))

(***************************************************************************)
(* C6 amended: the merge fails with a TypeError exactly when, at some key  *)
(* path present in both documents, the two values are of different types:  *)
(* always when one is a container and the other a scalar, but also for a   *)
(* mapping against a sequence and for two scalars of different types.      *)
(* When it succeeds: two mappings are merged key by key, any other         *)
(* override value (a scalar, or a sequence as a whole) replaces the base   *)
(* value or is added after the base's keys, and a base value the override  *)
(* does not name is kept.                                                  *)
(***************************************************************************)
C6_TypesafeReplace ==
    Merged =>
        /\ (\E path \in Paths :
                KindConflict(Lookup(p_base, path), Lookup(p_override, path)))
              => p_merged.t = "TypeError"
        /\ IsError(p_merged)
              <=> \E path \in Paths :
                      TypeConflict(Lookup(p_base, path), Lookup(p_override, path))
        /\ ~IsError(p_merged) =>
              /\ \A path \in Paths :
                    LET b == Lookup(p_base, path)
                        o == Lookup(p_override, path)
                        r == Lookup(p_merged, path)
                    IN  /\ (Present(o) /\ ~(IsMapping(o) /\ IsMapping(b))) => r = o
                        /\ (Present(o) /\ IsMapping(o) /\ IsMapping(b)) => IsMapping(r)
                        /\ (~Present(o) /\ Present(b)) => r = b
                        /\ (~Present(o) /\ ~Present(b)) => ~Present(r)
              /\ KeysOf(p_merged)
                    = KeysOf(p_base)
                      \o SelectSeq(KeysOf(p_override), LAMBDA k : ~HasKey(p_base, k))

\* The override has a scalar under "a" where the base has a mapping with a
\* key: the merge has failed.
C6_Witness ==
    /\ Merged
    /\ Present(Lookup(p_base, <<"a", "b">>))
    /\ Lookup(p_override, <<"a">>).t = "int"
    /\ p_merged.t = "TypeError"

AddrIsStringIn(override, section) ==
    Lookup(override, <<section, "addr">>).t \in {"absent", "str"}

====
